---- MODULE Spec2Model ----
\* Model of wallet-cli/src/utils/abi.rs: the ABI parameter codec front end
\* (encode_params, decode_params, pformat_abi_token) and the signature
\* builder (entry_to_method_name, entry_to_method_name_pretty, fnhash).
\*
\* Text is a sequence of one-character strings, so that prefixes, suffixes
\* and joins are real operations on the characters.  Bytes are 0..255.
EXTENDS Integers, Sequences, FiniteSets, TLC

VARIABLES fn, types, values, data, tokens, ret, entry, enc

vars == <<fn, types, values, data, tokens, ret, entry, enc>>

\* ---------------------------------------------------------------- bounds

\* longest list of inputs of an ABI entry
MaxInputs == 2
\* longest list of outputs of an ABI entry
MaxOutputs == 2
\* longest list of parameters of a call of encode_params or decode_params
MaxArgs == 2

\* ------------------------------------------------------------------ text

RECURSIVE Join(_, _)
\* [String]::join(sep)
Join(parts, sep) ==
    IF Len(parts) = 0 THEN <<>>
    ELSE IF Len(parts) = 1 THEN parts[1]
    ELSE parts[1] \o sep \o Join(Tail(parts), sep)

\* all sequences over S of length at most n
SeqsUpTo(S, n) == UNION {[1..k -> S] : k \in 0..n}

t_empty == <<>>
t_comma == <<",">>
t_comma_space == <<",", " ">>
t_function == <<"f","u","n","c","t","i","o","n">>
t_event == <<"e","v","e","n","t">>
t_constructor == <<"c","o","n","s","t","r","u","c","t","o","r">>
t_payable == <<" ","p","a","y","a","b","l","e">>
t_view == <<" ","v","i","e","w">>
t_returns == <<" ","r","e","t","u","r","n","s"," ","(">>
t_indexed == <<" ","i","n","d","e","x","e","d"," ">>
t_uint256 == <<"u","i","n","t","2","5","6">>
t_bool == <<"b","o","o","l">>
t_address == <<"a","d","d","r","e","s","s">>
t_foo == <<"f","o","o">>
t_trcToken == <<"t","r","c","T","o","k","e","n">>
t_int256 == <<"i","n","t","2","5","6">>
t_bytes == <<"b","y","t","e","s">>
t_bytes2 == <<"b","y","t","e","s","2">>
t_string == <<"s","t","r","i","n","g">>
t_uint == <<"u","i","n","t">>
t_int == <<"i","n","t">>
t_tuple == <<"t","u","p","l","e">>
t_true == <<"t","r","u","e">>
t_false == <<"f","a","l","s","e">>
t_tuple_placeholder == <<"t","u","p","l","e","(",".",".",".",")">>
t_Address == <<"A","d","d","r","e","s","s">>
t_Bool == <<"B","o","o","l">>
t_String == <<"S","t","r","i","n","g">>

\* the name of a Token variant as text
TextOfKind(k) ==
    CASE k = "FixedBytes" -> <<"F","i","x","e","d","B","y","t","e","s">>
      [] k = "Bytes" -> <<"B","y","t","e","s">>
      [] k = "Int" -> <<"I","n","t">>
      [] k = "Uint" -> <<"U","i","n","t">>
      [] k = "FixedArray" -> <<"F","i","x","e","d","A","r","r","a","y">>
      [] k = "Array" -> <<"A","r","r","a","y">>
      [] k = "Tuple" -> <<"T","u","p","l","e">>

T_100 == <<"1","0","0">>
T_uint256_arr_arr == <<"u","i","n","t","2","5","6","[","]","[","]">>
T_tuple_uint256_string == <<"(","u","i","n","t","2","5","6",",","s","t","r","i","n","g",")">>
T_trcToken_2 == <<"t","r","c","T","o","k","e","n","[","2","]">>
t_amount == <<"a","m","o","u","n","t">>

None == [none |-> TRUE]

\* ----------------------------------------------------------- bytes, words

\* the decimal digits and the lowercase hex digits, in value order
Digits == <<"0","1","2","3","4","5","6","7","8","9">>
HexDigits == <<"0","1","2","3","4","5","6","7","8","9","a","b","c","d","e","f">>
UpperHexDigits == <<"0","1","2","3","4","5","6","7","8","9","A","B","C","D","E","F">>

IsDigit(c) == \E i \in 1..10 : Digits[i] = c
DigitVal(c) == (CHOOSE i \in 1..10 : Digits[i] = c) - 1

IsHexDigit(c) == \E i \in 1..16 : HexDigits[i] = c \/ UpperHexDigits[i] = c
HexVal(c) == (CHOOSE i \in 1..16 : HexDigits[i] = c \/ UpperHexDigits[i] = c) - 1

\* the printable ASCII characters, code 32 to code 126 (code 96 is written
\* GRAVE: TLA+ strings do not hold that character)
AsciiChars ==
    <<" ","!","\"","#","$","%","&","'","(",")","*","+",",","-",".","/",
      "0","1","2","3","4","5","6","7","8","9",":",";","<","=",">","?",
      "@","A","B","C","D","E","F","G","H","I","J","K","L","M","N","O",
      "P","Q","R","S","T","U","V","W","X","Y","Z","[","\\","]","^","_",
      "GRAVE","a","b","c","d","e","f","g","h","i","j","k","l","m","n","o",
      "p","q","r","s","t","u","v","w","x","y","z","{","|","}","~">>

\* the names that stand for the control characters, code 0 to code 31
ControlChars ==
    <<"NUL","SOH","STX","ETX","EOT","ENQ","ACK","BEL",
      "BS","HT","LF","VT","FF","CR","SO","SI",
      "DLE","DC1","DC2","DC3","DC4","NAK","SYN","ETB",
      "CAN","EM","SUB","ESC","FS","GS","RS","US">>

\* str::as_bytes on one character
ByteOf(c) ==
    IF \E i \in 1..Len(AsciiChars) : AsciiChars[i] = c
    THEN (CHOOSE i \in 1..Len(AsciiChars) : AsciiChars[i] = c) + 31
    ELSE IF \E i \in 1..Len(ControlChars) : ControlChars[i] = c
    THEN (CHOOSE i \in 1..Len(ControlChars) : ControlChars[i] = c) - 1
    ELSE 127

\* the character of one byte below 128 of a decoded string
CharOf(b) ==
    IF b \in 32..126 THEN AsciiChars[b - 31]
    ELSE IF b < 32 THEN ControlChars[b + 1]
    ELSE "DEL"

Zeros(n) == [i \in 1..n |-> 0]

\* hex::encode / ToHex::encode_hex: two lowercase digits a byte
ToHex(bytes) ==
    [i \in 1..(2 * Len(bytes)) |->
        IF i % 2 = 1 THEN HexDigits[(bytes[(i + 1) \div 2] \div 16) + 1]
        ELSE HexDigits[(bytes[i \div 2] % 16) + 1]]

\* Vec::from_hex: an error on an odd length or on a character that is no
\* hex digit
FromHex(text) ==
    IF Len(text) % 2 = 1 THEN [ok |-> FALSE, err |-> <<"FromHex", "OddLength">>]
    ELSE IF \E i \in 1..Len(text) : ~IsHexDigit(text[i])
    THEN [ok |-> FALSE, err |-> <<"FromHex", "InvalidHexCharacter">>]
    ELSE [ok |-> TRUE,
          val |-> [i \in 1..(Len(text) \div 2) |->
                      16 * HexVal(text[2 * i - 1]) + HexVal(text[2 * i])]]

\* a 32-byte big-endian word of a small number (usize written as U256)
WordOf(n) ==
    [i \in 1..32 |->
        CASE i = 32 -> n % 256
          [] i = 31 -> (n \div 256) % 256
          [] i = 30 -> (n \div 65536) % 256
          [] i = 29 -> (n \div 16777216) % 256
          [] OTHER -> 0]

\* the 32 bytes of a word, as a sequence
Bytes32(f) == SubSeq(f, 1, 32)

\* a carry enters byte i of x + y (byte 32 is the least significant): a byte
\* below it overflows and every byte between the two passes the carry on
CarryInto(x, y, i) ==
    \E j \in (i + 1)..32 :
        /\ x[j] + y[j] > 255
        /\ \A k \in (i + 1)..(j - 1) : x[k] + y[k] = 255

\* U256::overflowing_add
OverflowingAdd(x, y) ==
    [w |-> Bytes32([i \in 1..32 |->
                      (x[i] + y[i] + (IF CarryInto(x, y, i) THEN 1 ELSE 0)) % 256]),
     overflow |-> CarryInto(x, y, 0)]

\* w * p for p = 2, 4, 8, ... 128: the bits of each byte move up by one place
ShiftLeft(w, p) ==
    [w |-> Bytes32([i \in 1..32 |->
              ((w[i] * p) % 256) + (IF i < 32 THEN (w[i + 1] * p) \div 256 ELSE 0)]),
     overflow |-> (w[1] * p) \div 256 # 0]

\* U256::overflowing_mul by ten: 8 w + 2 w
OverflowingMul10(w) ==
    LET w8 == ShiftLeft(w, 8)
        w2 == ShiftLeft(w, 2)
        sum == OverflowingAdd(w8.w, w2.w)
    IN  [w |-> sum.w, overflow |-> w8.overflow \/ w2.overflow \/ sum.overflow]

RECURSIVE FromDecFrom(_, _, _)
FromDecFrom(text, i, acc) ==
    IF i > Len(text) THEN [ok |-> TRUE, val |-> acc]
    ELSE IF ~IsDigit(text[i]) THEN [ok |-> FALSE, err |-> <<"FromDecStr", "InvalidCharacter">>]
    ELSE LET m == OverflowingMul10(acc)
             r == OverflowingAdd(m.w, WordOf(DigitVal(text[i])))
         IN  IF m.overflow \/ r.overflow
             THEN [ok |-> FALSE, err |-> <<"FromDecStr", "InvalidLength">>]
             ELSE FromDecFrom(text, i + 1, r.w)

\* U256::from_dec_str
FromDecStr(text) == FromDecFrom(text, 1, Zeros(32))

RECURSIVE SumRange(_, _, _)
\* ns[lo] + ... + ns[hi]
SumRange(ns, lo, hi) ==
    IF lo > hi THEN 0
    ELSE IF lo = hi THEN ns[lo]
    ELSE SumRange(ns, lo, (lo + hi) \div 2) + SumRange(ns, (lo + hi) \div 2 + 1, hi)

\* the divisor of one step of the long division that writes the numeral
DecStep == 10000

RECURSIVE Pow256(_)
\* 256^k modulo DecStep
Pow256(k) ==
    IF k = 0 THEN 1
    ELSE IF k = 1 THEN 256
    ELSE (Pow256(k \div 2) * Pow256(k - (k \div 2))) % DecStep

Pow256Table == [k \in 0..31 |-> Pow256(k)]

\* the number of the bytes 1..i of w, modulo DecStep
RemAfter(w, i) ==
    SumRange([j \in 1..i |-> w[j] * Pow256Table[i - j]], 1, i) % DecStep

\* w / DecStep and w % DecStep by long division, most significant byte first
DivModStep(w) ==
    [q |-> Bytes32([i \in 1..32 |-> (RemAfter(w, i - 1) * 256 + w[i]) \div DecStep]),
     r |-> RemAfter(w, 32)]

\* the four decimal digits of a number below DecStep
FourDigits(n) ==
    <<Digits[(n \div 1000) + 1], Digits[((n \div 100) % 10) + 1],
      Digits[((n \div 10) % 10) + 1], Digits[(n % 10) + 1]>>

\* a numeral without its leading zeros
StripZeros(ds) ==
    IF \A i \in 1..Len(ds) : ds[i] = "0" THEN <<>>
    ELSE SubSeq(ds, CHOOSE i \in 1..Len(ds) :
                        ds[i] # "0" /\ \A j \in 1..(i - 1) : ds[j] = "0", Len(ds))

RECURSIVE ToDecDigits(_, _)
\* the digits of w, in groups of four, before the digits of lower already
\* written (a U256 has 78 digits at most)
ToDecDigits(w, lower) ==
    IF w = Zeros(32) \/ Len(lower) >= 80 THEN lower
    ELSE ToDecDigits(DivModStep(w).q, FourDigits(DivModStep(w).r) \o lower)

\* U256 as Display (and as Debug): the decimal numeral
U256ToString(w) == IF w = Zeros(32) THEN <<"0">> ELSE StripZeros(ToDecDigits(w, <<>>))

\* !w + 1: the two's complement of a word
Negate(w) == OverflowingAdd(Bytes32([i \in 1..32 |-> 255 - w[i]]), WordOf(1)).w

\* ------------------------------------------- type strings (ethabi Reader)

StartsWith(s, p) == Len(p) <= Len(s) /\ SubSeq(s, 1, Len(p)) = p

RECURSIVE ParseUsizeFrom(_, _, _)
ParseUsizeFrom(text, i, acc) ==
    IF i > Len(text) THEN [ok |-> TRUE, val |-> acc]
    ELSE IF ~IsDigit(text[i]) THEN [ok |-> FALSE, err |-> <<"ParseInt", text>>]
    ELSE ParseUsizeFrom(text, i + 1, acc * 10 + DigitVal(text[i]))

\* usize::from_str_radix(text, 10)
ParseUsize(text) ==
    IF Len(text) = 0 THEN [ok |-> FALSE, err |-> <<"ParseInt", text>>]
    ELSE ParseUsizeFrom(text, 1, 0)

\* the members of a finite set of numbers, least first
Sorted(S) ==
    [k \in 1..Cardinality(S) |-> CHOOSE p \in S : Cardinality({q \in S : q < p}) = k - 1]

\* the pieces of text between the places of cuts, a sorted list
Pieces(text, first, cuts, last) ==
    [k \in 1..(Len(cuts) + 1) |->
        SubSeq(text, IF k = 1 THEN first ELSE cuts[k - 1] + 1,
                     IF k = Len(cuts) + 1 THEN last ELSE cuts[k] - 1)]

\* the parentheses open before character i of text
DepthAt(text, i) ==
    Cardinality({k \in 1..(i - 1) : text[k] = "("})
    - Cardinality({k \in 1..(i - 1) : text[k] = ")"})

\* the pieces of text between the commas that lie outside every parenthesis
SplitTop(text) ==
    Pieces(text, 1, Sorted({i \in 1..Len(text) : text[i] = "," /\ DepthAt(text, i) = 0}),
           Len(text))

\* the first error of a list of results, or the list of their values
Collect(results) ==
    IF \E i \in 1..Len(results) : ~results[i].ok
    THEN [ok |-> FALSE,
          err |-> results[CHOOSE i \in 1..Len(results) :
                             ~results[i].ok /\ \A j \in 1..(i - 1) : results[j].ok].err]
    ELSE [ok |-> TRUE, val |-> [i \in 1..Len(results) |-> results[i].val]]

\* index of the last "[" of text (0 when there is none)
LastOpenBracket(text) ==
    IF \E i \in 1..Len(text) : text[i] = "["
    THEN CHOOSE i \in 1..Len(text) :
            text[i] = "[" /\ \A j \in (i + 1)..Len(text) : text[j] # "["
    ELSE 0

InvalidName(name) == [ok |-> FALSE, err |-> <<"InvalidName", name>>]

\* the primitive type names of Reader::read
ReadPrimitive(name) ==
    CASE name = t_address -> [ok |-> TRUE, val |-> [t |-> "Address"]]
      [] name = t_bytes -> [ok |-> TRUE, val |-> [t |-> "Bytes"]]
      [] name = t_bool -> [ok |-> TRUE, val |-> [t |-> "Bool"]]
      [] name = t_string -> [ok |-> TRUE, val |-> [t |-> "String"]]
      [] name = t_int -> [ok |-> TRUE, val |-> [t |-> "Int", n |-> 256]]
      [] name = t_tuple -> [ok |-> TRUE, val |-> [t |-> "Tuple", of |-> <<>>]]
      [] name = t_uint -> [ok |-> TRUE, val |-> [t |-> "Uint", n |-> 256]]
      [] OTHER ->
           IF StartsWith(name, t_int)
           THEN LET len == ParseUsize(SubSeq(name, 4, Len(name)))
                IN  IF len.ok THEN [ok |-> TRUE, val |-> [t |-> "Int", n |-> len.val]]
                    ELSE len
           ELSE IF StartsWith(name, t_uint)
           THEN LET len == ParseUsize(SubSeq(name, 5, Len(name)))
                IN  IF len.ok THEN [ok |-> TRUE, val |-> [t |-> "Uint", n |-> len.val]]
                    ELSE len
           ELSE IF StartsWith(name, t_bytes)
           THEN LET len == ParseUsize(SubSeq(name, 6, Len(name)))
                IN  IF len.ok THEN [ok |-> TRUE, val |-> [t |-> "FixedBytes", n |-> len.val]]
                    ELSE len
           ELSE InvalidName(name)

RECURSIVE Reader_read(_)
\* ethabi::param_type::Reader::read: a tuple "(a,b)", an array "t[]" or
\* "t[n]", or a primitive name.  (A name that ends in "]" and holds no "["
\* is not among the type strings used here.)
Reader_read(name) ==
    IF Len(name) > 0 /\ name[Len(name)] = ")"
    THEN IF name[1] # "(" THEN InvalidName(name)
         ELSE LET inner == SubSeq(name, 2, Len(name) - 1)
                  parts == IF inner = <<>> THEN <<>> ELSE SplitTop(inner)
                  subs == Collect([i \in 1..Len(parts) |-> Reader_read(parts[i])])
              IN  IF subs.ok THEN [ok |-> TRUE, val |-> [t |-> "Tuple", of |-> subs.val]]
                  ELSE subs
    ELSE IF Len(name) > 0 /\ name[Len(name)] = "]"
    THEN LET open == LastOpenBracket(name)
             num == SubSeq(name, open + 1, Len(name) - 1)
             subtype == Reader_read(SubSeq(name, 1, open - 1))
         IN  IF open = 0 THEN InvalidName(name)
             ELSE IF num = <<>>
             THEN IF subtype.ok
                  THEN [ok |-> TRUE, val |-> [t |-> "Array", of |-> subtype.val]]
                  ELSE subtype
             ELSE LET len == ParseUsize(num)
                  IN  IF ~len.ok THEN len
                      ELSE IF subtype.ok
                      THEN [ok |-> TRUE,
                            val |-> [t |-> "FixedArray", of |-> subtype.val, n |-> len.val]]
                      ELSE subtype
    ELSE ReadPrimitive(name)


\* --------------------------------------- values (ethabi LenientTokenizer)

InvalidData == [ok |-> FALSE, err |-> <<"InvalidData">>]

Tok(k, v) == [k |-> k, v |-> v]

\* StrictTokenizer::tokenize_address
tokenize_address(value) ==
    LET hex == FromHex(value)
    IN  IF ~hex.ok THEN hex
        ELSE IF Len(hex.val) = 20 THEN hex ELSE InvalidData

\* StrictTokenizer::tokenize_bool
tokenize_bool(value) ==
    CASE value = t_true \/ value = <<"1">> -> [ok |-> TRUE, val |-> TRUE]
      [] value = t_false \/ value = <<"0">> -> [ok |-> TRUE, val |-> FALSE]
      [] OTHER -> InvalidData

\* StrictTokenizer::tokenize_fixed_bytes
tokenize_fixed_bytes(value, len) ==
    LET hex == FromHex(value)
    IN  IF ~hex.ok THEN hex
        ELSE IF Len(hex.val) = len THEN hex ELSE InvalidData

\* StrictTokenizer::tokenize_uint (and tokenize_int): 32 bytes of hex
strict_tokenize_uint(value) ==
    LET hex == FromHex(value)
    IN  IF ~hex.ok THEN hex
        ELSE IF Len(hex.val) = 32 THEN hex ELSE InvalidData

\* LenientTokenizer::tokenize_uint: the strict form, else a decimal numeral
tokenize_uint(value) ==
    IF strict_tokenize_uint(value).ok THEN strict_tokenize_uint(value)
    ELSE FromDecStr(value)

RECURSIVE TrimMinus(_)
\* str::trim_start_matches('-')
TrimMinus(value) ==
    IF Len(value) > 0 /\ value[1] = "-" THEN TrimMinus(Tail(value)) ELSE value

\* 2^255, the magnitude of the least 256-bit integer
MinIntMagnitude == [i \in 1..32 |-> IF i = 1 THEN 128 ELSE 0]

\* LenientTokenizer::tokenize_int: the strict form, else a signed decimal
\* numeral written in two's complement
tokenize_int(value) ==
    IF strict_tokenize_uint(value).ok THEN strict_tokenize_uint(value)
    ELSE LET abs == FromDecStr(TrimMinus(value))
         IN  IF ~abs.ok THEN abs
             ELSE IF Len(value) > 0 /\ value[1] = "-"
             THEN IF abs.val = Zeros(32) THEN abs
                  ELSE IF abs.val[1] >= 128 /\ abs.val # MinIntMagnitude THEN InvalidData
                  ELSE [ok |-> TRUE, val |-> Negate(abs.val)]
             ELSE IF abs.val[1] >= 128 THEN InvalidData
             ELSE abs

RECURSIVE tokenize(_, _)

\* the state of the loops of tokenize_array and tokenize_struct when they
\* read character i of value: ignore is set inside double quotes
IgnoreAt(value, i) == Cardinality({k \in 1..(i - 1) : value[k] = "\""}) % 2 = 1

\* nested, of the same loops: the brackets open outside double quotes
NestedAt(value, i, open, close) ==
    Cardinality({k \in 1..(i - 1) : value[k] = open /\ ~IgnoreAt(value, k)})
    - Cardinality({k \in 1..(i - 1) : value[k] = close /\ ~IgnoreAt(value, k)})

\* the places where the loops end an item: the bracket that closes the
\* value, and a comma directly inside it
ItemEnds(value, open, close) ==
    Sorted({i \in 1..Len(value) :
              /\ ~IgnoreAt(value, i)
              /\ \/ value[i] = close /\ NestedAt(value, i, open, close) - 1 = 0
                 \/ value[i] = "," /\ NestedAt(value, i, open, close) = 1})

\* the places where the loops find a closing bracket that nothing opened
Unopened(value, open, close) ==
    {i \in 1..Len(value) :
        ~IgnoreAt(value, i) /\ value[i] = close /\ NestedAt(value, i, open, close) - 1 < 0}

\* the item that ends at ends[k]
Item(value, ends, k) ==
    SubSeq(value, IF k = 1 THEN 2 ELSE ends[k - 1] + 1, ends[k] - 1)

\* what the loops return: the error of the first place where they stop, or
\* the tokens of the items, results[k] being the token of the item k
Scan(value, ends, unopened, results) ==
    LET n == Len(ends)
        failed == {k \in 1..n : ~results[k].ok}
        stops == {ends[k] : k \in failed} \cup unopened
        first == CHOOSE p \in stops : \A q \in stops : p <= q
    IN  IF stops # {}
        THEN IF first \in unopened THEN InvalidData
             ELSE results[CHOOSE k \in failed : ends[k] = first]
        ELSE IF IgnoreAt(value, Len(value) + 1) THEN InvalidData
        ELSE [ok |-> TRUE, val |-> SubSeq([k \in 1..n |-> results[k].val], 1, n)]

\* Tokenizer::tokenize_array
tokenize_array(value, param) ==
    IF Len(value) = 0 \/ value[1] # "[" \/ value[Len(value)] # "]" THEN InvalidData
    ELSE IF Len(value) = 2 THEN [ok |-> TRUE, val |-> <<>>]
    ELSE LET ends == ItemEnds(value, "[", "]")
         IN  Scan(value, ends, Unopened(value, "[", "]"),
                  [k \in 1..Len(ends) |-> tokenize(param, Item(value, ends, k))])

\* Tokenizer::tokenize_fixed_array
tokenize_fixed_array(value, param, len) ==
    LET result == tokenize_array(value, param)
    IN  IF ~result.ok THEN result
        ELSE IF Len(result.val) = len THEN result ELSE InvalidData

\* Tokenizer::tokenize_struct: the item k is read as the type params[k]
tokenize_struct(value, params) ==
    IF Len(value) = 0 \/ value[1] # "(" \/ value[Len(value)] # ")" THEN InvalidData
    ELSE IF Len(value) = 2 THEN [ok |-> TRUE, val |-> <<>>]
    ELSE LET ends == ItemEnds(value, "(", ")")
         IN  Scan(value, ends, Unopened(value, "(", ")"),
                  [k \in 1..Len(ends) |->
                      IF k > Len(params) THEN InvalidData
                      ELSE tokenize(params[k], Item(value, ends, k))])

\* the result r with its value made a token of kind k
AsToken(k, r) == IF r.ok THEN [ok |-> TRUE, val |-> Tok(k, r.val)] ELSE r

\* LenientTokenizer::tokenize
tokenize(param, value) ==
    CASE param.t = "Address" -> AsToken("Address", tokenize_address(value))
      [] param.t = "String" -> [ok |-> TRUE, val |-> Tok("String", value)]
      [] param.t = "Bool" -> AsToken("Bool", tokenize_bool(value))
      [] param.t = "Bytes" -> AsToken("Bytes", FromHex(value))
      [] param.t = "FixedBytes" -> AsToken("FixedBytes", tokenize_fixed_bytes(value, param.n))
      [] param.t = "Uint" -> AsToken("Uint", tokenize_uint(value))
      [] param.t = "Int" -> AsToken("Int", tokenize_int(value))
      [] param.t = "Array" -> AsToken("Array", tokenize_array(value, param.of))
      [] param.t = "FixedArray" ->
           AsToken("FixedArray", tokenize_fixed_array(value, param.of, param.n))
      [] param.t = "Tuple" -> AsToken("Tuple", tokenize_struct(value, param.of))

\* ------------------------------------------ binary layout (ethabi encode)

Sum(ns) == SumRange(ns, 1, Len(ns))

RECURSIVE ConcatRange(_, _, _)
\* parts[lo] \o ... \o parts[hi]
ConcatRange(parts, lo, hi) ==
    IF lo > hi THEN <<>>
    ELSE IF lo = hi THEN parts[lo]
    ELSE ConcatRange(parts, lo, (lo + hi) \div 2)
         \o ConcatRange(parts, (lo + hi) \div 2 + 1, hi)

Concat(parts) == ConcatRange(parts, 1, Len(parts))

\* bytes padded with zeros on the right to a whole number of words
PadRight(bytes) == bytes \o Zeros((32 - (Len(bytes) % 32)) % 32)

RECURSIVE TokenIsDynamic(_)
\* Token::is_dynamic
TokenIsDynamic(token) ==
    CASE token.k \in {"Bytes", "String", "Array"} -> TRUE
      [] token.k \in {"FixedArray", "Tuple"} ->
           \E i \in 1..Len(token.v) : TokenIsDynamic(token.v[i])
      [] OTHER -> FALSE

RECURSIVE EncodeToken(_)
RECURSIVE encode(_)

\* the words of one token: a static token's own words, a dynamic token's tail
EncodeToken(token) ==
    CASE token.k \in {"Uint", "Int"} -> token.v
      [] token.k = "Bool" -> WordOf(IF token.v THEN 1 ELSE 0)
      [] token.k = "Address" -> Zeros(12) \o token.v
      [] token.k = "FixedBytes" -> PadRight(token.v)
      [] token.k = "Bytes" -> WordOf(Len(token.v)) \o PadRight(token.v)
      [] token.k = "String" ->
           WordOf(Len(token.v)) \o PadRight([i \in 1..Len(token.v) |-> ByteOf(token.v[i])])
      [] token.k = "Array" -> WordOf(Len(token.v)) \o encode(token.v)
      [] token.k \in {"FixedArray", "Tuple"} -> encode(token.v)

\* ethabi::encode: the heads of the tokens (a static token's words, a
\* dynamic token's offset from the start of the heads), then the tails of
\* the dynamic tokens in order
encode(toks) ==
    LET n == Len(toks)
        body == [i \in 1..n |-> EncodeToken(toks[i])]
        dyn == [i \in 1..n |-> TokenIsDynamic(toks[i])]
        heads == Sum([i \in 1..n |-> IF dyn[i] THEN 32 ELSE Len(body[i])])
        tailsBefore(i) == Sum([j \in 1..(i - 1) |-> IF dyn[j] THEN Len(body[j]) ELSE 0])
    IN  Concat([i \in 1..n |-> IF dyn[i] THEN WordOf(heads + tailsBefore(i)) ELSE body[i]])
        \o Concat([i \in 1..n |-> IF dyn[i] THEN body[i] ELSE <<>>])

\* ------------------------------------------ binary layout (ethabi decode)

\* a number that no offset or length inside the data reaches
TooBig == 1073741824

\* peek: the word at position offset of the slices
Peek(slices, offset) ==
    IF 32 * offset + 32 <= Len(slices)
    THEN [ok |-> TRUE, val |-> SubSeq(slices, 32 * offset + 1, 32 * offset + 32)]
    ELSE InvalidData

\* as_u32: the last four bytes of a word whose other bytes are zero
AsU32(slice) ==
    IF \E i \in 1..28 : slice[i] # 0 THEN InvalidData
    ELSE IF slice[29] >= 64 THEN [ok |-> TRUE, val |-> TooBig]
    ELSE [ok |-> TRUE,
          val |-> slice[29] * 16777216 + slice[30] * 65536 + slice[31] * 256 + slice[32]]

\* as_bool
AsBool(slice) ==
    IF \E i \in 1..31 : slice[i] # 0 THEN InvalidData
    ELSE [ok |-> TRUE, val |-> slice[32] = 1]

\* the number read by as_u32 from the word at position offset
PeekU32(slices, offset) ==
    IF Peek(slices, offset).ok THEN AsU32(Peek(slices, offset).val) ELSE InvalidData

\* take_bytes: len bytes from the word at position on
TakeBytes(slices, position, len) ==
    LET words == (len + 31) \div 32
    IN  IF len >= TooBig \/ 32 * (position + words) > Len(slices) THEN InvalidData
        ELSE [ok |-> TRUE,
              val |-> SubSeq(slices, 32 * position + 1, 32 * position + len),
              new_offset |-> position + words]

RECURSIVE ParamIsDynamic(_)
\* ParamType::is_dynamic
ParamIsDynamic(param) ==
    CASE param.t \in {"Bytes", "String", "Array"} -> TRUE
      [] param.t = "FixedArray" -> ParamIsDynamic(param.of)
      [] param.t = "Tuple" -> \E i \in 1..Len(param.of) : ParamIsDynamic(param.of[i])
      [] OTHER -> FALSE

\* the slices from word n on
SlicesFrom(slices, n) == SubSeq(slices, 32 * n + 1, Len(slices))

RECURSIVE decode_param(_, _, _)
RECURSIVE DecodeEach(_, _, _, _, _)

\* the loops of decode_param and of decode: the params in turn, each read
\* at the offset the one before it left
DecodeEach(params, i, slices, offset, acc) ==
    IF i > Len(params) THEN [ok |-> TRUE, val |-> acc, new_offset |-> offset]
    ELSE LET res == decode_param(params[i], slices, offset)
         IN  IF ~res.ok THEN res
             ELSE DecodeEach(params, i + 1, slices, res.new_offset, Append(acc, res.val))

RECURSIVE DecodeRepeat(_, _, _, _, _)
\* the loop over the len elements of an array
DecodeRepeat(param, len, slices, offset, acc) ==
    IF len = 0 THEN [ok |-> TRUE, val |-> acc, new_offset |-> offset]
    ELSE LET res == decode_param(param, slices, offset)
         IN  IF ~res.ok THEN res
             ELSE DecodeRepeat(param, len - 1, slices, res.new_offset, Append(acc, res.val))

\* the tail of a dynamic fixed array or tuple, and the tokens read there
DecodeGroup(kind, params, len, single, dynamic, slices, offset) ==
    LET at == PeekU32(slices, offset)
        tail == IF dynamic THEN SlicesFrom(slices, at.val \div 32) ELSE slices
        start == IF dynamic THEN 0 ELSE offset
        res == IF single THEN DecodeRepeat(params, len, tail, start, <<>>)
               ELSE DecodeEach(params, 1, tail, start, <<>>)
    IN  IF dynamic /\ ~at.ok THEN at
        ELSE IF dynamic /\ 32 * (at.val \div 32) > Len(slices) THEN InvalidData
        ELSE IF ~res.ok THEN res
        ELSE [ok |-> TRUE, val |-> Tok(kind, res.val),
              new_offset |-> IF dynamic THEN offset + 1 ELSE res.new_offset]

\* ethabi::decoder::decode_param
decode_param(param, slices, offset) ==
    CASE param.t = "Address" ->
           IF Peek(slices, offset).ok
           THEN [ok |-> TRUE, val |-> Tok("Address", SubSeq(Peek(slices, offset).val, 13, 32)),
                 new_offset |-> offset + 1]
           ELSE InvalidData
      [] param.t \in {"Int", "Uint"} ->
           IF Peek(slices, offset).ok
           THEN [ok |-> TRUE, val |-> Tok(param.t, Peek(slices, offset).val),
                 new_offset |-> offset + 1]
           ELSE InvalidData
      [] param.t = "Bool" ->
           IF Peek(slices, offset).ok /\ AsBool(Peek(slices, offset).val).ok
           THEN [ok |-> TRUE, val |-> Tok("Bool", AsBool(Peek(slices, offset).val).val),
                 new_offset |-> offset + 1]
           ELSE InvalidData
      [] param.t = "FixedBytes" ->
           LET taken == TakeBytes(slices, offset, param.n)
           IN  IF taken.ok
               THEN [ok |-> TRUE, val |-> Tok("FixedBytes", taken.val),
                     new_offset |-> taken.new_offset]
               ELSE taken
      [] param.t \in {"Bytes", "String"} ->
           LET at == PeekU32(slices, offset)
               len == PeekU32(slices, at.val \div 32)
               taken == TakeBytes(slices, (at.val \div 32) + 1, len.val)
           IN  IF ~at.ok THEN at
               ELSE IF ~len.ok THEN len
               ELSE IF ~taken.ok THEN taken
               ELSE IF param.t = "Bytes"
               THEN [ok |-> TRUE, val |-> Tok("Bytes", taken.val), new_offset |-> offset + 1]
               ELSE IF \E i \in 1..Len(taken.val) : taken.val[i] >= 128
               THEN [ok |-> FALSE, err |-> <<"Utf8">>]
               ELSE [ok |-> TRUE,
                     val |-> Tok("String", [i \in 1..Len(taken.val) |-> CharOf(taken.val[i])]),
                     new_offset |-> offset + 1]
      [] param.t = "Array" ->
           LET at == PeekU32(slices, offset)
               len == PeekU32(slices, at.val \div 32)
               res == DecodeRepeat(param.of, len.val,
                                   SlicesFrom(slices, (at.val \div 32) + 1), 0, <<>>)
           IN  IF ~at.ok THEN at
               ELSE IF ~len.ok THEN len
               ELSE IF ~res.ok THEN res
               ELSE [ok |-> TRUE, val |-> Tok("Array", res.val), new_offset |-> offset + 1]
      [] param.t = "FixedArray" ->
           DecodeGroup("FixedArray", param.of, param.n, TRUE, ParamIsDynamic(param),
                       slices, offset)
      [] param.t = "Tuple" ->
           DecodeGroup("Tuple", param.of, 0, FALSE, ParamIsDynamic(param), slices, offset)

\* ethabi::decode: the data cut into words, the params read in turn
decode(params, bytes) ==
    IF Len(bytes) % 32 # 0 THEN InvalidData
    ELSE LET res == DecodeEach(params, 1, bytes, 0, <<>>)
         IN  IF res.ok THEN [ok |-> TRUE, val |-> res.val] ELSE res

\* ------------------------------------------------------------- formatter

\* Address::from_tvm_bytes(raw).to_string(): the chain's textual address
\* encoding is an external collaborator, kept as an uninterpreted character
AddressToString(raw) == <<"base58check(" \o ToString(<<65>> \o raw) \o ")">>

\* the hex digits of a small number, without leading zeros
RECURSIVE HexOfNat(_)
HexOfNat(n) ==
    IF n < 16 THEN <<HexDigits[n + 1]>>
    ELSE HexOfNat(n \div 16) \o <<HexDigits[(n % 16) + 1]>>

\* char::escape_debug
EscapeDebug(c) ==
    CASE c = "\"" -> <<"\\", "\"">>
      [] c = "\\" -> <<"\\", "\\">>
      [] c = "NUL" -> <<"\\", "0">>
      [] c = "HT" -> <<"\\", "t">>
      [] c = "LF" -> <<"\\", "n">>
      [] c = "CR" -> <<"\\", "r">>
      [] ByteOf(c) < 32 \/ ByteOf(c) = 127 ->
           <<"\\", "u", "{">> \o HexOfNat(ByteOf(c)) \o <<"}">>
      [] OTHER -> <<c>>

\* format!("{:?}", s) of a string
DebugStr(text) ==
    <<"\"">> \o Concat([i \in 1..Len(text) |-> EscapeDebug(text[i])]) \o <<"\"">>

\* format!("{:?}", v) of a Vec<u8>
DebugBytes(bytes) ==
    <<"[">> \o Join([i \in 1..Len(bytes) |-> U256ToString(WordOf(bytes[i]))], t_comma_space)
    \o <<"]">>

BoolToString(b) == IF b THEN t_true ELSE t_false

RECURSIVE DebugToken(_)
\* format!("{:?}", t) of a Token: the variant name and, in parentheses, the
\* Debug form of what it holds
DebugToken(token) ==
    CASE token.k = "Address" -> t_Address \o <<"(", "0", "x">> \o ToHex(token.v) \o <<")">>
      [] token.k \in {"FixedBytes", "Bytes"} ->
           TextOfKind(token.k) \o <<"(">> \o DebugBytes(token.v) \o <<")">>
      [] token.k \in {"Int", "Uint"} ->
           TextOfKind(token.k) \o <<"(">> \o U256ToString(token.v) \o <<")">>
      [] token.k = "Bool" -> t_Bool \o <<"(">> \o BoolToString(token.v) \o <<")">>
      [] token.k = "String" -> t_String \o <<"(">> \o DebugStr(token.v) \o <<")">>
      [] token.k \in {"FixedArray", "Array", "Tuple"} ->
           TextOfKind(token.k) \o <<"(", "[">>
           \o Join([i \in 1..Len(token.v) |-> DebugToken(token.v[i])], t_comma_space)
           \o <<"]", ")">>

RECURSIVE pformat_abi_token(_)
pformat_abi_token(tok) ==
    CASE tok.k = "Address" -> AddressToString(tok.v)
      [] tok.k = "String" -> DebugStr(tok.v)
      [] tok.k = "Uint" -> U256ToString(tok.v)
      [] tok.k = "Bool" -> BoolToString(tok.v)
      [] tok.k = "Array" ->
           <<"[">>
           \o Join([i \in 1..Len(tok.v) |-> pformat_abi_token(tok.v[i])], t_comma_space)
           \o <<"]">>
      [] tok.k = "Bytes" -> ToHex(tok.v)
      [] tok.k = "FixedBytes" -> ToHex(tok.v)
      [] tok.k = "Tuple" -> t_tuple_placeholder
      [] OTHER -> DebugToken(tok)

\* ------------------------------------------ encode_params, decode_params

\* text with uint256 in place of every occurrence of trcToken
SubstAlias(text) ==
    LET n == Len(t_trcToken)
        at(i) == i + n - 1 <= Len(text) /\ SubSeq(text, i, i + n - 1) = t_trcToken
    IN  Concat([i \in 1..Len(text) |->
                  IF at(i) THEN t_uint256
                  ELSE IF \E j \in 1..(i - 1) : at(j) /\ i < j + n THEN <<>>
                  ELSE <<text[i]>>])

\* EncParseType without the alias
EncParseType_noalias(s) == Reader_read(s)

\* the closure of encode_params that reads one type string
EncParseType(s) == IF s = t_trcToken THEN Reader_read(t_uint256) ELSE Reader_read(s)

\* DecParseType without the alias
DecParseType_noalias(s) == Reader_read(s)

\* DecParseType replacing the alias wherever it occurs in the type string
DecParseType_anywhere(s) == Reader_read(SubstAlias(s))

\* the closure of decode_params that reads one type string
DecParseType(s) == IF s = t_trcToken THEN Reader_read(t_uint256) ELSE Reader_read(s)

\* parse_tokens(params, true): LenientTokenizer on each pair, the first
\* error or all the tokens
parse_tokens(params, vals) ==
    Collect([i \in 1..Len(params) |-> tokenize(params[i], vals[i])])

Panic == [kind |-> "Panic"]
Err(e) == [kind |-> "Err", err |-> e]
Ok(v) == [kind |-> "Ok", val |-> v]

\* the tokens of encode_params at its call of encode, when it gets there
EncodeTokens(ts, vs) ==
    LET read == Collect([i \in 1..Len(ts) |-> EncParseType(ts[i])])
    IN  IF Len(ts) # Len(vs) THEN InvalidData
        ELSE IF ~read.ok THEN read
        ELSE parse_tokens(read.val, vs)

\* encode_params reading the type strings before it compares the lengths
encode_params_read_first(ts, vs) ==
    LET read == Collect([i \in 1..Len(ts) |-> EncParseType(ts[i])])
        toks == EncodeTokens(ts, vs)
    IN  IF ~read.ok THEN Err(read.err)
        ELSE IF Len(ts) # Len(vs) THEN Panic
        ELSE IF ~toks.ok THEN Err(toks.err)
        ELSE Ok(encode(toks.val))

encode_params(ts, vs) ==
    LET toks == EncodeTokens(ts, vs)
    IN  IF Len(ts) # Len(vs) THEN Panic
        ELSE IF ~toks.ok THEN Err(toks.err)
        ELSE Ok(encode(toks.val))

\* the tokens of decode_params after its call of decode, when it gets there
DecodeTokens(ts, d) ==
    LET read == Collect([i \in 1..Len(ts) |-> DecParseType(ts[i])])
        bytes == FromHex(d)
    IN  IF ~read.ok THEN read
        ELSE IF ~bytes.ok THEN bytes
        ELSE decode(read.val, bytes.val)

decode_params(ts, d) ==
    LET toks == DecodeTokens(ts, d)
    IN  IF ~toks.ok THEN Err(toks.err)
        ELSE IF Len(ts) # Len(toks.val) THEN Panic
        ELSE Ok([i \in 1..Len(toks.val) |-> pformat_abi_token(toks.val[i])])

\* ------------------------------------------------------- codec system

\* (type string, value text) pairs of the calls of encode_params: every
\* shape of type, nested ones, the alias alone and inside a type, a
\* malformed type and a value that does not fit its type
ParamSamples ==
    { <<<<"u","i","n","t","2","5","6">>,
        <<"1","0","0">>>>,
      <<<<"t","r","c","T","o","k","e","n">>,
        <<"1","0","0">>>>,
      <<<<"b","o","o","l">>,
        <<"t","r","u","e">>>>,
      <<<<"i","n","t","2","5","6">>,
        <<"-","1">>>>,
      <<<<"a","d","d","r","e","s","s">>,
        <<"0","0","0","0","0","0","0","0","0","0","0","0","0","0","0","0","0","0","0","0","0","0","0","0","0","0","0","0","0","0","0","0","0","0","0","0","0","0","a","1">>>>,
      <<<<"b","y","t","e","s","2">>,
        <<"a","b","c","d">>>>,
      <<<<"b","y","t","e","s">>,
        <<"a","b","c","d","e","f">>>>,
      <<<<"s","t","r","i","n","g">>,
        <<"h","i">>>>,
      <<<<"u","i","n","t","2","5","6","[","]">>,
        <<"[","1",",","2","]">>>>,
      <<<<"u","i","n","t","2","5","6","[","2","]">>,
        <<"[","1",",","2","]">>>>,
      <<<<"(","u","i","n","t","2","5","6",",","b","o","o","l",")">>,
        <<"(","1",",","t","r","u","e",")">>>>,
      <<<<"u","i","n","t","2","5","6","[","]","[","]">>,
        <<"[","[","1","]",",","[","]","]">>>>,
      <<<<"(","u","i","n","t","2","5","6",",","s","t","r","i","n","g",")">>,
        <<"(","7",",","h","i",")">>>>,
      <<<<"t","r","c","T","o","k","e","n","[","]">>,
        <<"[","1","]">>>>,
      <<<<"(","t","r","c","T","o","k","e","n",",","b","o","o","l",")">>,
        <<"(","1",",","t","r","u","e",")">>>>,
      <<<<"f","o","o">>,
        <<"1">>>>,
      <<<<"u","i","n","t","2","5","6">>,
        <<"x">>>> }

\* type strings of the calls of decode_params on the data samples
DecodeTypes ==
    { <<"u","i","n","t","2","5","6">>,
      <<"i","n","t","2","5","6">>,
      <<"t","r","c","T","o","k","e","n">>,
      <<"b","o","o","l">>,
      <<"u","i","n","t","2","5","6","[","]">>,
      <<"u","i","n","t","2","5","6","[","2","]">>,
      <<"(","u","i","n","t","2","5","6",",","b","o","o","l",")","[","]">>,
      <<"t","r","c","T","o","k","e","n","[","]">>,
      <<"t","r","c","T","o","k","e","n","[","2","]">>,
      <<"f","o","o">> }

\* token lists whose encodings are the data samples
SampleTokens ==
    { <<Tok("Uint", WordOf(5))>>,
      <<Tok("Uint", WordOf(5)), Tok("Int", Negate(WordOf(1)))>>,
      <<Tok("Uint", WordOf(1)), Tok("Uint", WordOf(2))>>,
      <<Tok("Array", <<Tok("Uint", WordOf(1)), Tok("Uint", WordOf(2))>>)>>,
      <<Tok("Array", <<>>)>>,
      <<Tok("Array", <<Tok("Tuple", <<Tok("Uint", WordOf(1)), Tok("Bool", TRUE)>>)>>)>> }

\* the hex texts handed to decode_params: encodings, one cut short, and
\* text that is no hex
DataSamples ==
    {ToHex(encode(toks)) : toks \in SampleTokens}
    \cup {SubSeq(ToHex(encode(toks)), 1, 62) : toks \in {<<Tok("Uint", WordOf(5))>>}}
    \cup {<<"z", "z">>}

AllButLast(seq) == SubSeq(seq, 1, Len(seq) - 1)

\* A behaviour is one call on the arguments the initial state draws, or a
\* call of encode_params followed by decode_params on its output.
InitCodec ==
    /\ fn = "none"
    /\ entry = None
    /\ tokens = <<>>
    /\ ret = None
    /\ enc = None
    /\ \/ \E args \in SeqsUpTo(ParamSamples, MaxArgs), cut \in {"none", "type", "value"} :
             LET ts == [i \in 1..Len(args) |-> args[i][1]]
                 vs == [i \in 1..Len(args) |-> args[i][2]]
             IN  /\ cut # "none" => Len(args) > 0
                 /\ types = IF cut = "type" THEN AllButLast(ts) ELSE ts
                 /\ values = IF cut = "value" THEN AllButLast(vs) ELSE vs
                 /\ data = <<>>
       \/ /\ types \in SeqsUpTo(DecodeTypes, MaxArgs)
          /\ data \in DataSamples
          /\ values = <<>>

\* encode_params(types, values)
EncodeParams ==
    /\ fn = "none"
    /\ entry = None
    /\ fn' = "encode_params"
    /\ LET toks == EncodeTokens(types, values)
       IN  tokens' = IF toks.ok THEN toks.val ELSE <<>>
    /\ ret' = encode_params(types, values)
    /\ UNCHANGED <<types, values, data, entry, enc>>

\* decode_params(types, data), on the data of the initial state or on the
\* hex text of the bytes that encode_params has just returned
DecodeParams ==
    /\ entry = None
    /\ \/ fn = "none" /\ data' = data /\ enc' = None
       \/ /\ fn = "encode_params" /\ ret.kind = "Ok"
          /\ data' = ToHex(ret.val)
          /\ enc' = [tokens |-> tokens, bytes |-> ret.val]
    /\ fn' = "decode_params"
    /\ LET toks == DecodeTokens(types, data')
       IN  tokens' = IF toks.ok THEN toks.val ELSE <<>>
    /\ ret' = decode_params(types, data')
    /\ UNCHANGED <<types, values, entry>>

Next == EncodeParams \/ DecodeParams

Spec == InitCodec /\ [][Next]_vars

\* ----------------------------------------------------------- codec claims

\* C1: encode_params with "trcToken" at a position returns what it returns
\* with "uint256" at that position, the other types and the values unchanged
\* (the same bytes, the same error or the same abort).
C1_AliasIsUint256 ==
    fn = "encode_params" =>
        \A i \in 1..Len(types) :
            /\ types[i] = t_trcToken =>
                  encode_params([types EXCEPT ![i] = t_uint256], values) = ret
            /\ types[i] = t_uint256 =>
                  encode_params([types EXCEPT ![i] = t_trcToken], values) = ret

\* C1 witness: a value encoded under the alias, as the word of 100.
C1_Witness ==
    /\ fn = "encode_params"
    /\ types = <<t_trcToken, t_bool>>
    /\ values = <<T_100, t_true>>
    /\ ret = Ok(WordOf(100) \o WordOf(1))

\* C2: decoding the bytes that encode produced for a token list, with the
\* same type strings, succeeds and gives back the token list.
C2_RoundTrip ==
    (fn = "decode_params" /\ enc # None) =>
        /\ ret.kind = "Ok"
        /\ FromHex(data).val = enc.bytes
        /\ tokens = enc.tokens

\* C2 witness: the round trip of a nested array and of a tuple that holds a
\* string, both dynamic.
C2_Witness ==
    /\ fn = "decode_params"
    /\ enc # None
    /\ types = <<T_uint256_arr_arr, T_tuple_uint256_string>>
    /\ Len(tokens) = 2
    /\ tokens[1].k = "Array" /\ tokens[2].k = "Tuple"
    /\ tokens = enc.tokens

\* C3: with lists of different lengths encode_params aborts, whatever the
\* lists hold.
C3_LengthMismatchAborts ==
    (fn = "encode_params" /\ Len(types) # Len(values)) => ret = Panic

\* C3 witness: an abort on lists of different lengths, one of whose type
\* strings the reader rejects.
C3_Witness ==
    /\ fn = "encode_params"
    /\ Len(types) # Len(values)
    /\ \E i \in 1..Len(types) : ~Reader_read(types[i]).ok
    /\ ret = Panic

IsDecimal(text) == Len(text) > 0 /\ \A i \in 1..Len(text) : IsDigit(text[i])

\* C8: every Uint token and every Int token is rendered as a decimal
\* numeral, digits only.
C8_IntegersDecimal ==
    (fn = "decode_params" /\ ret.kind = "Ok") =>
        \A i \in 1..Len(tokens) :
            tokens[i].k \in {"Uint", "Int"} => IsDecimal(ret.val[i])

\* C9: every array token, of a variable-length or of a fixed-size array
\* type, is rendered as "[", its elements formatted by the formatter and
\* joined by comma-space, and "]".
C9_ArraysBracketed ==
    (fn = "decode_params" /\ ret.kind = "Ok") =>
        \A i \in 1..Len(tokens) :
            tokens[i].k \in {"Array", "FixedArray"} =>
                ret.val[i] =
                    <<"[">>
                    \o Join([j \in 1..Len(tokens[i].v) |-> pformat_abi_token(tokens[i].v[j])],
                            t_comma_space)
                    \o <<"]">>

\* a type string that holds the alias and is not the alias
EmbedsAlias(s) == s # t_trcToken /\ SubstAlias(s) # s

\* the call of the state, on other type strings
CallWith(ts) ==
    IF fn = "encode_params" THEN encode_params(ts, values) ELSE decode_params(ts, data)

\* C10: the alias is replaced only when it is the whole type string.  A
\* type string that holds it as an element type goes to the reader as it is:
\* when the strings before it are read, the call returns the reader's error
\* for that text, which is not what the call returns with uint256 written in
\* place of the alias.
C10_AliasOnlyWhenWhole ==
    (fn \in {"encode_params", "decode_params"} /\ enc = None /\ ret # Panic) =>
        \A i \in 1..Len(types) :
            (/\ EmbedsAlias(types[i])
             /\ \A j \in 1..(i - 1) :
                   ~EmbedsAlias(types[j]) /\ Reader_read(SubstAlias(types[j])).ok)
            => /\ ret = Err(Reader_read(types[i]).err)
               /\ CallWith([k \in 1..Len(types) |-> SubstAlias(types[k])]) # ret

\* C10 witness: decode_params rejects "trcToken[2]" after reading "uint256",
\* on data that it decodes when the string is "uint256[2]".
C10_Witness ==
    /\ fn = "decode_params"
    /\ enc = None
    /\ types = <<t_uint256, T_trcToken_2>>
    /\ ret = Err(<<"InvalidName", t_trcToken>>)
    /\ decode_params(<<t_uint256, SubstAlias(T_trcToken_2)>>, data).kind = "Ok"

\* ------------------------------------------------------ signature builder

\* SmartContract_ABI_Entry_EntryType
AbiEntryType == {"UnknownEntryType", "Constructor", "Function", "Event", "Fallback"}

\* SmartContract_ABI_Entry_StateMutabilityType
StateMutabilityType == {"UnknownMutabilityType", "Pure", "View", "Nonpayable", "Payable"}

\* SmartContract_ABI_Entry_Param values used as inputs: unnamed, named,
\* named and indexed, unnamed and indexed
InputParams ==
    { [name |-> t_empty, field_type |-> t_uint256, indexed |-> FALSE],
      [name |-> t_amount, field_type |-> t_uint256, indexed |-> FALSE],
      [name |-> <<"t","o">>, field_type |-> t_address, indexed |-> TRUE],
      [name |-> t_empty, field_type |-> t_bool, indexed |-> TRUE] }

OutputParams ==
    { [name |-> t_empty, field_type |-> t_bool, indexed |-> FALSE],
      [name |-> <<"r">>, field_type |-> t_uint256, indexed |-> FALSE] }

EntryNames == {t_foo, t_empty}

\* the ABI entries handed to the signature builder
Entries ==
    [name : EntryNames,
     field_type : AbiEntryType,
     inputs : SeqsUpTo(InputParams, MaxInputs),
     outputs : SeqsUpTo(OutputParams, MaxOutputs),
     payable : BOOLEAN,
     stateMutability : StateMutabilityType]

\* crypto::keccak256 is an external collaborator: an uninterpreted function
\* of its input bytes, of which fnhash keeps the first four bytes
fnhash(fname) == [keccak256_0_4 |-> fname]

FieldTypes(params) == [i \in 1..Len(params) |-> params[i].field_type]

\* entry_to_method_name building the signature from "type name" pairs
entry_to_method_name_named(e) ==
    e.name \o <<"(">>
    \o Join([i \in 1..Len(e.inputs) |->
                e.inputs[i].field_type \o <<" ">> \o e.inputs[i].name], t_comma)
    \o <<")">>

entry_to_method_name(e) ==
    e.name \o <<"(">> \o Join(FieldTypes(e.inputs), t_comma) \o <<")">>

\* PrettyArg testing the indexed flag before the name
PrettyArg_indexed_first(arg) ==
    IF arg.indexed THEN arg.field_type \o t_indexed \o arg.name
    ELSE IF arg.name = t_empty THEN arg.field_type
    ELSE arg.field_type \o <<" ">> \o arg.name

\* the closure of entry_to_method_name_pretty that renders one input
PrettyArg(arg) ==
    IF arg.name = t_empty THEN arg.field_type
    ELSE IF arg.indexed THEN arg.field_type \o t_indexed \o arg.name
    ELSE arg.field_type \o <<" ">> \o arg.name

\* the match that starts entry_to_method_name_pretty
KindWord(e) ==
    CASE e.field_type \in {"Function", "Fallback"} -> t_function
      [] e.field_type = "Event" -> t_event
      [] e.field_type = "Constructor" -> t_constructor
      [] OTHER -> t_empty

\* PrettyName without the Fallback test
PrettyName_always(e) == <<" ">> \o e.name

\* the name written after the kind word
PrettyName(e) ==
    IF e.field_type # "Fallback" THEN <<" ">> \o e.name ELSE t_empty

\* PrettyFlags writing view for every read-only mutability
PrettyFlags_readonly(e) ==
    (IF e.payable THEN t_payable ELSE t_empty)
    \o (IF e.stateMutability \in {"View", "Pure"} THEN t_view ELSE t_empty)

\* the payable and view suffixes
PrettyFlags(e) ==
    (IF e.payable THEN t_payable ELSE t_empty)
    \o (IF e.stateMutability = "View" THEN t_view ELSE t_empty)

\* the returns suffix
PrettyReturns(e) ==
    IF Len(e.outputs) # 0
    THEN t_returns \o Join(FieldTypes(e.outputs), t_comma_space) \o <<")">>
    ELSE t_empty

entry_to_method_name_pretty(e) ==
    KindWord(e) \o PrettyName(e)
    \o <<"(">> \o Join([i \in 1..Len(e.inputs) |-> PrettyArg(e.inputs[i])], t_comma_space) \o <<")">>
    \o PrettyFlags(e) \o PrettyReturns(e)

\* ---------------------------------------------------------------- system

\* Every function of the module is pure and keeps no state between calls: a
\* behaviour is one call on arguments drawn by the initial state.

InitSig ==
    /\ fn = "none"
    /\ entry \in Entries
    /\ types = <<>>
    /\ values = <<>>
    /\ data = <<>>
    /\ tokens = <<>>
    /\ ret = None
    /\ enc = None

\* entry_to_method_name(entry), and fnhash of its result (the selector)
EntryToMethodName ==
    /\ fn = "none"
    /\ entry # None
    /\ fn' = "entry_to_method_name"
    /\ ret' = [kind |-> "Ok", val |-> entry_to_method_name(entry),
               selector |-> fnhash(entry_to_method_name(entry))]
    /\ UNCHANGED <<types, values, data, tokens, entry, enc>>

\* entry_to_method_name_pretty(entry)
EntryToMethodNamePretty ==
    /\ fn = "none"
    /\ entry # None
    /\ fn' = "entry_to_method_name_pretty"
    /\ ret' = [kind |-> "Ok", val |-> entry_to_method_name_pretty(entry)]
    /\ UNCHANGED <<types, values, data, tokens, entry, enc>>

NextSig == EntryToMethodName \/ EntryToMethodNamePretty

SpecSig == InitSig /\ [][NextSig]_vars

\* The selector specification: entry_to_method_name alone, on entries that
\* vary in every field.
SelEntries ==
    [name : EntryNames,
     field_type : AbiEntryType,
     inputs : SeqsUpTo(InputParams, MaxInputs),
     outputs : SeqsUpTo(OutputParams, 1),
     payable : BOOLEAN,
     stateMutability : {"View", "Pure", "UnknownMutabilityType"}]

InitSel ==
    /\ fn = "none"
    /\ entry \in SelEntries
    /\ types = <<>>
    /\ values = <<>>
    /\ data = <<>>
    /\ tokens = <<>>
    /\ ret = None
    /\ enc = None

NextSel == EntryToMethodName

SpecSel == InitSel /\ [][NextSel]_vars

\* ------------------------------------------------- signature builder claims

IsPrefix(p, s) == Len(p) <= Len(s) /\ SubSeq(s, 1, Len(p)) = p

\* index of the first "(" of s (0 when there is none)
FirstOpen(s) ==
    IF \E i \in 1..Len(s) : s[i] = "("
    THEN CHOOSE i \in 1..Len(s) : s[i] = "(" /\ \A j \in 1..(i - 1) : s[j] # "("
    ELSE 0

\* index of the ")" that closes the "(" at position open of s (0 when it is
\* never closed)
MatchClose(s, open) ==
    LET level(j) == Cardinality({k \in open..j : s[k] = "("})
                    - Cardinality({k \in open..j : s[k] = ")"})
        closes == {j \in (open + 1)..Len(s) : s[j] = ")" /\ level(j) = 0}
    IN  IF closes = {} THEN 0 ELSE CHOOSE j \in closes : \A k \in closes : j <= k

\* the text between the parentheses of the argument list
ArgList(s) == SubSeq(s, FirstOpen(s) + 1, MatchClose(s, FirstOpen(s)) - 1)

\* the text after the closing parenthesis of the argument list
AfterArgList(s) == SubSeq(s, MatchClose(s, FirstOpen(s)) + 1, Len(s))

\* the entries that have the name and the input type strings of e
SameSignature(e) ==
    { e2 \in [name : {e.name},
              field_type : AbiEntryType,
              inputs : {ins \in SeqsUpTo(InputParams, MaxInputs) :
                           FieldTypes(ins) = FieldTypes(e.inputs)},
              outputs : SeqsUpTo(OutputParams, 1),
              payable : BOOLEAN,
              stateMutability : {"View", "Pure", "UnknownMutabilityType"}] : TRUE }

\* C4: two entries with the same name and the same ordered input type
\* strings have the same method name and the same selector, whatever their
\* parameter names, indexed flags, outputs, payable flag, mutability and kind.
C4_SelectorDeterminism ==
    fn = "entry_to_method_name" =>
        \A e2 \in SameSignature(entry) :
            /\ entry_to_method_name(e2) = ret.val
            /\ fnhash(entry_to_method_name(e2)) = ret.selector

\* C4 witness: a method name was computed for an entry that has another
\* entry of the same signature differing in the names, flags and kind.
C4_Witness ==
    /\ fn = "entry_to_method_name"
    /\ ret.val = t_foo \o <<"(">> \o t_uint256 \o <<",">> \o t_address \o <<")">>
    /\ \E e2 \in SameSignature(entry) :
          /\ e2.inputs # entry.inputs
          /\ e2.field_type # entry.field_type
          /\ e2.payable # entry.payable
          /\ e2.outputs # entry.outputs
          /\ e2.stateMutability # entry.stateMutability

\* the suffixes the entry's flags and outputs call for
SuffixOf(e) ==
    (IF e.payable THEN t_payable ELSE <<>>)
    \o (IF e.stateMutability = "View" THEN t_view ELSE <<>>)
    \o (IF e.outputs # <<>>
        THEN t_returns \o Join(FieldTypes(e.outputs), t_comma_space) \o <<")">>
        ELSE <<>>)

\* C5: after the closing parenthesis of the argument list come " payable"
\* iff the payable flag is set, then " view" iff the mutability is exactly
\* View, then " returns (t1, t2, ...)" iff there are outputs, and nothing else.
C5_Suffixes ==
    fn = "entry_to_method_name_pretty" => AfterArgList(ret.val) = SuffixOf(entry)

\* C5 witness: scenario 3 of the specification.
C5_Witness ==
    /\ fn = "entry_to_method_name_pretty"
    /\ entry.payable /\ entry.stateMutability = "View" /\ Len(entry.outputs) = 1
    /\ ret.val = t_function \o <<" ">> \o t_foo \o <<"(">> \o t_uint256 \o <<" ">>
                 \o t_amount \o <<")">> \o t_payable \o t_view \o t_returns
                 \o t_bool \o <<")">>

\* the rendering of one input as the claim words it
RenderedArg(arg) ==
    CASE arg.name = <<>> -> arg.field_type
      [] arg.name # <<>> /\ arg.indexed -> arg.field_type \o t_indexed \o arg.name
      [] OTHER -> arg.field_type \o <<" ">> \o arg.name

\* C6: between one pair of parentheses the inputs appear in order, joined
\* by comma-space, each as its type alone when unnamed (indexed or not), as
\* "type indexed name" when named and indexed, as "type name" otherwise.
C6_Arguments ==
    fn = "entry_to_method_name_pretty" =>
        /\ FirstOpen(ret.val) > 0
        /\ MatchClose(ret.val, FirstOpen(ret.val)) > 0
        /\ ArgList(ret.val) =
              Join([i \in 1..Len(entry.inputs) |-> RenderedArg(entry.inputs[i])],
                   t_comma_space)

\* C6 witness: an unnamed indexed input followed by a named indexed one.
C6_Witness ==
    /\ fn = "entry_to_method_name_pretty"
    /\ Len(entry.inputs) = 2
    /\ entry.inputs[1].name = <<>> /\ entry.inputs[1].indexed
    /\ entry.inputs[2].name # <<>> /\ entry.inputs[2].indexed
    /\ ArgList(ret.val) = t_bool \o t_comma_space \o t_address \o t_indexed \o <<"t","o">>

\* C7: a Fallback entry starts "function(" whatever its name; a Function,
\* Event or Constructor entry starts with its kind word, a space and its name.
C7_Head ==
    fn = "entry_to_method_name_pretty" =>
        /\ entry.field_type = "Fallback" => IsPrefix(t_function \o <<"(">>, ret.val)
        /\ entry.field_type = "Function" =>
              IsPrefix(t_function \o <<" ">> \o entry.name \o <<"(">>, ret.val)
        /\ entry.field_type = "Event" =>
              IsPrefix(t_event \o <<" ">> \o entry.name \o <<"(">>, ret.val)
        /\ entry.field_type = "Constructor" =>
              IsPrefix(t_constructor \o <<" ">> \o entry.name \o <<"(">>, ret.val)

\* C7 witness: a Fallback entry whose name field is not empty.
C7_Witness ==
    /\ fn = "entry_to_method_name_pretty"
    /\ entry.field_type = "Fallback"
    /\ entry.name = t_foo
    /\ IsPrefix(t_function \o <<"(">>, ret.val)

====
